---- MODULE Spec2Model ----
(***************************************************************************)
(* Model of package errors (errors.go): chain nodes built by New, the      *)
(* query functions File, Line, PC and Cause, the chain walker ForCauses    *)
(* and the membership test OneCauseOf.                                     *)
(*                                                                         *)
(* An error interface value is a record [type, id]: its dynamic type and   *)
(* the identity of the value of that type.  A value of type *errorChain    *)
(* is a pointer, id being the address of the node in the heap.             *)
(***************************************************************************)
EXTENDS Integers, Sequences, FiniteSets, TLC

\* ------------------------------------------------------------------ bounds
\* Number of New calls in a run.
MaxNodes == 3

\* ------------------------------------------------------------------ inputs
\* Values of the parameter text of New.
Texts == {"a"}
\* Program counters of the call sites of New, as runpoint.PC(1) captures them.
CallSites == {1}

\* ------------------------------------------------------------ error values
ChainType == "*errorChain"
ForeignType == "foreign"
UncomparableType == "uncomparable"

\* The nil error interface value.
Nil == [type |-> "nil", id |-> 0]
\* A pointer to the errorChain allocated at address a.
Node(a) == [type |-> ChainType, id |-> a]
\* Errors of a comparable type that is not *errorChain.
ForeignErrs == {[type |-> ForeignType, id |-> 1]}
\* An error whose type is not comparable (a struct with a slice field).
UncomparableErrs == {[type |-> UncomparableType, id |-> 1]}

VARIABLES
    heap,        \* the errorChain structs allocated so far, by address
    pc,          \* "ready", or the loop a call is in, or "panic"
    call,        \* the call in progress or last returned: its name and arguments
    err,         \* the local variable err of the loop in progress
    isComparable,\* the local variable isComparable of OneCauseOf
    visited,     \* the calls fun(err) made by ForCauses, the comparisons
                 \* err == target reached by OneCauseOf, in order
    ret,         \* the value the last call returned
    news         \* the values returned by the calls of New, in order

vars == <<heap, pc, call, err, isComparable, visited, ret, news>>

\* Every error value a caller can hold in the current state.
Errors == {Nil} \cup ForeignErrs \cup UncomparableErrs
            \cup {Node(a) : a \in 1..Len(heap)}

\* The argument lists of the variadic parameter cause: none, one, or two.
CauseLists ==
    {<<>>} \cup {<<c>> : c \in Errors} \cup {<<c, d>> : c \in Errors, d \in Errors}

\* The type assertion err.(*errorChain): ok.
IsChain(e) == e.type = ChainType

\* reflect.TypeOf(v)
TypeOf(v) == v.type

ComparableAlways(t) == TRUE

ComparablePointerOnly(t) == t = ChainType

\* reflect.Type.Comparable
Comparable(t) == t # UncomparableType

\* a == b on two error interface values: "true", "false", or "panic" when
\* both hold the same type and that type is not comparable.
InterfaceEq(a, b) ==
    IF TypeOf(a) # TypeOf(b) THEN "false"
    ELSE IF TypeOf(a) = UncomparableType THEN "panic"
    ELSE IF a.id = b.id THEN "true"
    ELSE "false"

\* The zero runpoint.PCounter.
ZeroPC == 0

\* runpoint.PCounter.File and Line: the position a handle resolves to.
PCFile(h) == IF h = ZeroPC THEN "" ELSE "file.go"
PCLine(h) == IF h = ZeroPC THEN 0 ELSE 10 * h

\* The record of a call: its name and arguments, the unused ones zero.
Call(op, e, target, text, cause, site) ==
    [op |-> op, err |-> e, target |-> target,
     text |-> text, cause |-> cause, site |-> site]

\* A return value: an error, a string, an int or PCounter, or a bool, by the
\* result type of the function; the fields of the other types are zero.
NoRet == [error |-> Nil, string |-> "", int |-> 0, bool |-> FALSE]
RetError(e) == [NoRet EXCEPT !.error = e]
RetString(x) == [NoRet EXCEPT !.string = x]
RetInt(n) == [NoRet EXCEPT !.int = n]
RetBool(b) == [NoRet EXCEPT !.bool = b]

\* ---------------------------------------------------------------------- New
NewNextFirst(cause) == IF Len(cause) >= 1 THEN cause[1] ELSE Nil

NewNextChainOnly(cause) ==
    IF Len(cause) = 1 /\ IsChain(cause[1]) THEN cause[1] ELSE Nil

\* var e error; if len(cause) == 1 { e = cause[0] }
NewNext(cause) == IF Len(cause) = 1 THEN cause[1] ELSE Nil

AllocInterned(node) ==
    IF \E a \in 1..Len(heap) : heap[a] = node
    THEN CHOOSE a \in 1..Len(heap) : heap[a] = node
    ELSE Len(heap) + 1

AllocPooled(node) == IF Len(heap) >= 2 THEN 1 ELSE Len(heap) + 1

\* &errorChain{...}: the address of the new struct, which no live value has.
Alloc(node) == Len(heap) + 1

\* The heap with node written at address a.
Store(a, node) ==
    IF a = Len(heap) + 1 THEN Append(heap, node) ELSE [heap EXCEPT ![a] = node]

New(text, cause, site) ==
    /\ pc = "ready"
    /\ Len(news) < MaxNodes
    /\ LET node == [text |-> text, next |-> NewNext(cause), pc |-> site]
           a == Alloc(node)
       IN /\ heap' = Store(a, node)
          /\ ret' = RetError(Node(a))
          /\ news' = Append(news, Node(a))
    /\ call' = Call("New", Nil, Nil, text, cause, site)
    /\ err' = Nil
    /\ isComparable' = FALSE
    /\ visited' = <<>>
    /\ UNCHANGED pc

\* ------------------------------------------------------------------ queries
\* func (e *errorChain) Error() string
Error(e) == heap[e.id].text

File(e) ==
    IF e = Nil THEN ""
    ELSE IF ~IsChain(e) THEN ""
    ELSE PCFile(heap[e.id].pc)

Line(e) ==
    IF e = Nil THEN 0
    ELSE IF ~IsChain(e) THEN 0
    ELSE PCLine(heap[e.id].pc)

PC(e) ==
    IF e = Nil THEN ZeroPC
    ELSE IF ~IsChain(e) THEN ZeroPC
    ELSE heap[e.id].pc

CauseRoot(e) ==
    IF e = Nil THEN Nil
    ELSE IF ~IsChain(e) THEN e
    ELSE heap[e.id].next

Cause(e) ==
    IF e = Nil THEN Nil
    ELSE IF ~IsChain(e) THEN Nil
    ELSE heap[e.id].next

\* A call of one of the functions that read and return at once.
Query(op, e, r) ==
    /\ pc = "ready"
    /\ call' = Call(op, e, Nil, "", <<>>, ZeroPC)
    /\ ret' = r
    /\ err' = Nil
    /\ isComparable' = FALSE
    /\ visited' = <<>>
    /\ UNCHANGED <<heap, pc, news>>

CallError(e) == IsChain(e) /\ Query("Error", e, RetString(Error(e)))
CallFile(e) == Query("File", e, RetString(File(e)))
CallLine(e) == Query("Line", e, RetInt(Line(e)))
CallPC(e) == Query("PC", e, RetInt(PC(e)))
CallCause(e) == Query("Cause", e, RetError(Cause(e)))

\* ---------------------------------------------------------------- ForCauses
\* Entry: if err == nil { return }, else into the loop.
ForCauses(e) ==
    /\ pc = "ready"
    /\ call' = Call("ForCauses", e, Nil, "", <<>>, ZeroPC)
    /\ pc' = IF e = Nil THEN "ready" ELSE "ForCauses"
    /\ err' = e
    /\ visited' = <<>>
    /\ ret' = NoRet
    /\ isComparable' = FALSE
    /\ UNCHANGED <<heap, news>>

HasNextChainOnly(e) == IsChain(e) /\ IsChain(heap[e.id].next)

\* if e, ok := err.(*errorChain); ok && e.next != nil
HasNext(e) == IsChain(e) /\ heap[e.id].next # Nil

\* One iteration: fun(err), then advance or return.
ForCausesLoop ==
    /\ pc = "ForCauses"
    /\ visited' = Append(visited, err)
    /\ IF HasNext(err)
       THEN /\ err' = heap[err.id].next
            /\ pc' = pc
       ELSE /\ err' = err
            /\ pc' = "ready"
    /\ UNCHANGED <<heap, call, isComparable, ret, news>>

\* --------------------------------------------------------------- OneCauseOf
NilTargetByCause(e, target) == Cause(e) = target

\* if target == nil { return err == target }
NilTarget(e, target) == e = target

\* Entry: the nil target, or isComparable and into the loop.
OneCauseOf(e, target) ==
    /\ pc = "ready"
    /\ call' = Call("OneCauseOf", e, target, "", <<>>, ZeroPC)
    /\ visited' = <<>>
    /\ err' = e
    /\ IF target = Nil
       THEN /\ ret' = RetBool(NilTarget(e, target))
            /\ pc' = "ready"
            /\ isComparable' = FALSE
       ELSE /\ isComparable' = Comparable(TypeOf(target))
            /\ pc' = "OneCauseOf"
            /\ ret' = NoRet
    /\ UNCHANGED <<heap, news>>

\* One iteration: compare, then advance or return false.
OneCauseOfLoop ==
    /\ pc = "OneCauseOf"
    /\ visited' = Append(visited, err)
    /\ IF isComparable /\ InterfaceEq(err, call.target) = "panic"
       THEN /\ pc' = "panic"
            /\ UNCHANGED <<err, ret>>
       ELSE IF isComparable /\ InterfaceEq(err, call.target) = "true"
       THEN /\ ret' = RetBool(TRUE)
            /\ pc' = "ready"
            /\ UNCHANGED err
       ELSE IF HasNext(err)
       THEN /\ err' = heap[err.id].next
            /\ UNCHANGED <<pc, ret>>
       ELSE /\ ret' = RetBool(FALSE)
            /\ pc' = "ready"
            /\ UNCHANGED err
    /\ UNCHANGED <<heap, call, isComparable, news>>

\* --------------------------------------------------------------------- Spec
Init ==
    /\ heap = <<>>
    /\ pc = "ready"
    /\ call = Call("none", Nil, Nil, "", <<>>, ZeroPC)
    /\ err = Nil
    /\ isComparable = FALSE
    /\ visited = <<>>
    /\ ret = NoRet
    /\ news = <<>>

Next ==
    \/ \E text \in Texts, cause \in CauseLists, site \in CallSites :
         New(text, cause, site)
    \/ \E e \in Errors : CallError(e)
    \/ \E e \in Errors : CallFile(e)
    \/ \E e \in Errors : CallLine(e)
    \/ \E e \in Errors : CallPC(e)
    \/ \E e \in Errors : CallCause(e)
    \/ \E e \in Errors : ForCauses(e)
    \/ ForCausesLoop
    \/ \E e \in Errors, target \in Errors : OneCauseOf(e, target)
    \/ OneCauseOfLoop

Spec == Init /\ [][Next]_vars

\* The loops run on once entered: a call in progress is not abandoned.
FairSpec == Spec /\ WF_vars(ForCausesLoop) /\ WF_vars(OneCauseOfLoop)

\* ------------------------------------------------------------------ helpers
\* The call named op has returned and no other call was made since.
Done(op) == pc = "ready" /\ call.op = op

\* The k-th cause of e: Cause applied k times.
RECURSIVE CauseN(_, _)
CauseN(e, k) == IF k = 0 THEN e ELSE CauseN(Cause(e), k - 1)

\* e and its successive causes, outermost first, down to the first element
\* that has no cause.
RECURSIVE Visits(_)
Visits(e) ==
    IF e = Nil THEN <<>>
    ELSE IF Cause(e) = Nil THEN <<e>>
    ELSE <<e>> \o Visits(Cause(e))

Range(s) == {s[i] : i \in 1..Len(s)}

IsPrefix(s, t) == Len(s) <= Len(t) /\ \A i \in 1..Len(s) : s[i] = t[i]

\* The chain nodes among e and its causes.
ChainNodes(e) == {v \in {CauseN(e, k) : k \in 0..Len(heap)} : IsChain(v)}

\* ------------------------------------------------------------------- claims
\* C1: Cause(New(t, c)) is exactly c, the value passed as the single cause:
\* nil, a chain node or a foreign error, not a copy and not a deeper ancestor.
C1_CauseOfNew ==
    (Done("New") /\ Len(call.cause) = 1) =>
        /\ Cause(ret.error) = call.cause[1]
        /\ heap[ret.error.id].next = call.cause[1]

C1_Witness ==
    /\ Done("New")
    /\ Len(call.cause) = 1
    /\ call.cause[1] \in ForeignErrs
    /\ Cause(ret.error) = call.cause[1]
    /\ Len(heap) = 2

\* C2: the nodes returned by different calls of New are pairwise unequal
\* under ==, even with identical text and cause; and OneCauseOf(e, n) is
\* false for a node n and every e built before n or not built by New.
C2_DistinctNodes ==
    /\ \A i, j \in 1..Len(news) :
         i # j => InterfaceEq(news[i], news[j]) = "false"
    /\ Done("OneCauseOf") =>
         \A k \in 1..Len(news) :
            ( /\ call.target = news[k]
              /\ \/ ~IsChain(call.err)
                 \/ \E j \in 1..(k - 1) : call.err = news[j] )
            => ret.bool = FALSE

C2_Witness ==
    /\ Done("OneCauseOf")
    /\ Len(news) = 3
    /\ call.target = news[3]
    /\ call.err = news[2]
    /\ Cause(news[2]) = news[1]
    /\ heap[news[3].id] = heap[news[1].id]
    /\ ret.bool = FALSE

\* C3: ForCauses(err, visit) calls visit on err, then on each successive
\* cause, outermost first, once per element, and returns after visiting the
\* first element that is no chain node or has a nil cause; the number of
\* calls is the length of the chain, and none is made for a nil err.
C3_ForCausesOrder ==
    call.op = "ForCauses" =>
        /\ IsPrefix(visited, Visits(call.err))
        /\ pc = "ForCauses" => err = Visits(call.err)[Len(visited) + 1]
        /\ pc = "ready" =>
             /\ Len(visited) = Len(Visits(call.err))
             /\ call.err = Nil => visited = <<>>
             /\ call.err # Nil =>
                  /\ visited[1] = call.err
                  /\ \A i \in 1..(Len(visited) - 1) :
                       /\ IsChain(visited[i])
                       /\ heap[visited[i].id].next # Nil
                       /\ visited[i + 1] = heap[visited[i].id].next
                  /\ LET last == visited[Len(visited)]
                     IN ~IsChain(last) \/ heap[last.id].next = Nil
                  /\ \A i, j \in 1..Len(visited) :
                       i # j => visited[i] # visited[j]

C3_Witness ==
    /\ Done("ForCauses")
    /\ visited = <<Node(3), Node(2), Node(1)>>

\* C4: for a non-nil target of comparable type, OneCauseOf(err, target) is
\* true exactly when target == one of the errors ForCauses(err, visit)
\* visits; it compares them in that order, up to the first match, and is
\* false once the chain is exhausted, also for a nil err.
C4_OneCauseOfMembership ==
    (call.op = "OneCauseOf" /\ call.target # Nil
        /\ call.target.type # UncomparableType) =>
        /\ call.err # Nil => IsPrefix(visited, Visits(call.err))
        /\ pc = "ready" =>
             /\ ret.bool = (\E v \in Range(Visits(call.err)) :
                          InterfaceEq(v, call.target) = "true")
             /\ call.err = Nil => ret.bool = FALSE
             /\ (ret.bool = FALSE /\ call.err # Nil) => visited = Visits(call.err)
             /\ ret.bool = TRUE =>
                  /\ visited[Len(visited)] = call.target
                  /\ \A i \in 1..(Len(visited) - 1) : visited[i] # call.target

C4_Witness ==
    /\ Done("OneCauseOf")
    /\ call.err = Node(3)
    /\ call.target = Node(1)
    /\ visited = <<Node(3), Node(2), Node(1)>>
    /\ ret.bool = TRUE

\* C5: with a nil target OneCauseOf(err, target) is true exactly when err
\* is nil; it is false for every non-nil err, also one whose chain ends in
\* a node with a nil cause.
C5_NilTarget ==
    (Done("OneCauseOf") /\ call.target = Nil) => ret.bool = (call.err = Nil)

C5_Witness ==
    /\ Done("OneCauseOf")
    /\ call.target = Nil
    /\ IsChain(call.err)
    /\ Cause(call.err) = Nil
    /\ ret.bool = FALSE

C8_Immutable ==
    [][\A a \in 1..Len(heap) :
          /\ a <= Len(heap')
          /\ heap'[a] = heap[a]
          /\ Cause(Node(a))' = Cause(Node(a))
          /\ Error(Node(a))' = Error(Node(a))
          /\ PC(Node(a))' = PC(Node(a))]_vars

C8_Witness ==
    /\ Done("New")
    /\ Len(heap) = 3
    /\ call.cause = <<Node(1)>>
    /\ heap[2].next = Node(1)

\* No chain node reaches itself by following cause links.
Acyclic ==
    \A a \in 1..Len(heap) :
        \A k \in 1..Len(heap) : CauseN(Node(a), k) # Node(a)

\* A walk has visited at most the chain nodes of its err and one foreign leaf.
WalkBound ==
    call.op \in {"ForCauses", "OneCauseOf"} =>
        Len(visited) <= Cardinality(ChainNodes(call.err)) + 1

\* C9: whatever calls of New were made, no node reaches itself by cause
\* links, and ForCauses and OneCauseOf return, having visited at most the
\* nodes of the chain and one foreign leaf.
C9_Terminates ==
    /\ []Acyclic
    /\ []WalkBound
    /\ (pc \in {"ForCauses", "OneCauseOf"}) ~> (pc = "ready")

C9_Witness ==
    /\ Done("ForCauses")
    /\ Len(visited) = 3
    /\ visited[3] \in ForeignErrs
    /\ Cardinality(ChainNodes(call.err)) = 2

\* C10: New stores a cause only when given exactly one: with none, or with
\* two or more, the node's Cause is nil and the walks stop at the node, so
\* no supplied cause is reached from it.
C10_OnlySingleCause ==
    (Done("New") /\ Len(call.cause) # 1) =>
        /\ Cause(ret.error) = Nil
        /\ ~HasNext(ret.error)
        /\ Visits(ret.error) = <<ret.error>>

C10_Witness ==
    /\ Done("New")
    /\ Len(call.cause) = 2
    /\ IsChain(call.cause[1])
    /\ call.cause[2] \in ForeignErrs
    /\ Cause(ret.error) = Nil

====
